---- MODULE Spec2Model ----
(***************************************************************************)
(* The DefineSchema step of the connection wizard                          *)
(* (arroyo-console/src/gen/api_connectweb.ts, lines 298-610): the          *)
(* DefineSchema component with its two selects (framing, data format), the *)
(* JsonEditor sub-editor with its schema-type select, and the              *)
(* RawStringEditor with its Continue button.  The draft (`state`) is owned *)
(* by the parent and replaced through setState; selectedFormat,            *)
(* selectedFraming and selectedSchemaType are the components' local state. *)
(*                                                                         *)
(* One action is one user event together with the re-render that follows   *)
(* it.  A <select> fires onChange only for a value different from the one  *)
(* it displays, and never for a disabled option.                           *)
(*                                                                         *)
(* JavaScript values: undefined, null and {} are the records Undefined,    *)
(* Null and EmptyObject; an optional string is the string Unset when it is *)
(* undefined; the optional number maxLineLength is a set of at most one    *)
(* number ({} is null); connectionProfileId null is NullId.                *)
(*                                                                         *)
(* JsonSchemaEditor and ConfluentSchemaEditor (rendered at lines 333, 336) *)
(* are not part of the source at hand and are not modelled.                *)
(*                                                                         *)
(* The same file holds the service contract registry ApiGrpc (lines        *)
(* 12-277), a constant; RegistrySpec reads it, Spec is the wizard step.    *)
(***************************************************************************)
EXTENDS Integers, Sequences, FiniteSets, TLC

VARIABLES
    connector,                 \* props.connector.id
    connectionProfilesLoading, \* useConnectionProfiles().connectionProfilesLoading
    connectionProfiles,        \* useConnectionProfiles().connectionProfiles
    state,                     \* the draft (CreateConnectionState)
    selectedFormat,            \* DefineSchema local state
    selectedFraming,           \* DefineSchema local state
    selectedSchemaType,        \* JsonEditor local state (value of the option)
    crashed,                   \* a render threw
    nextCalls,                 \* number of next() invocations
    lastEvent,                 \* history: the last event handled, and the draft before it
    call                       \* the last look-up in ApiGrpc.methods

vars == <<connector, connectionProfilesLoading, connectionProfiles, state,
          selectedFormat, selectedFraming, selectedSchemaType, crashed,
          nextCalls, lastEvent, call>>

----------------------------------------------------------------------------
(* Bounds *)

MaxProfiles == 2
MaxNextCalls == 2

----------------------------------------------------------------------------
(* JavaScript values *)

Undefined == [js |-> "undefined"]
Null == [js |-> "null"]
EmptyObject == [js |-> "{}"]
Unset == "undefined"
NullId == 0

Connectors == {"kafka", "sse"}
ProfileIds == 1..MaxProfiles

\* config.schemaRegistry of a profile: absent, null, or an object
RegistryValues == {Undefined, Null, [endpoint |-> "http://registry"]}

Profile(i, r) == [id |-> i, config |-> [schemaRegistry |-> r]]

RECURSIVE ListsOver(_, _)
\* the profile lists with the ids of `ids` in ascending order, ids unique
ListsOver(ids, from) ==
    IF from > MaxProfiles THEN {<<>>}
    ELSE LET rest == ListsOver(ids, from + 1)
         IN IF from \in ids
            THEN {<<Profile(from, r)>> \o l : r \in RegistryValues, l \in rest}
            ELSE rest

ProfileLists == UNION {ListsOver(ids, 1) : ids \in SUBSET ProfileIds}

UndefinedProfiles == [defined |-> FALSE, list |-> <<>>]

----------------------------------------------------------------------------
(* The draft *)

EmptySchema ==
    [format |-> Undefined, framing |-> Undefined, fields |-> <<>>,
     definition |-> Undefined]

EmptyDraft(c, p) ==
    [connectorId |-> c, connectionProfileId |-> p, schema |-> EmptySchema]

ValueField ==
    [fieldName |-> "value",
     fieldType |-> [type |-> [primitive |-> "string"]],
     nullable |-> TRUE]

----------------------------------------------------------------------------
(* DefineSchema: option lists *)

formats ==
    << [name |-> "JSON", value |-> "json", disabled |-> FALSE],
       [name |-> "Raw String", value |-> "raw_string", disabled |-> FALSE],
       [name |-> "Protobuf (coming soon)", value |-> "protobuf", disabled |-> TRUE],
       [name |-> "Avro (coming soon)", value |-> "avro", disabled |-> TRUE] >>

framingMethods ==
    << [name |-> "None", value |-> Undefined],
       [name |-> "Newline",
        value |-> [method |-> [newline |-> [maxLineLength |-> {}]]]] >>

\* the values a change event of the format select can carry: the placeholder
\* option (value "") and the options that are not disabled
FormatEventValues ==
    {""} \cup {formats[i].value : i \in {j \in DOMAIN formats : ~formats[j].disabled}}

FramingEventValues == {framingMethods[i].name : i \in DOMAIN framingMethods}

\* framingMethods.find(f => f.name == name)!.value
FramingValue(name) ==
    LET hits == {i \in DOMAIN framingMethods : framingMethods[i].name = name}
        first == CHOOSE i \in hits : \A j \in hits : i <= j
    IN framingMethods[first].value

----------------------------------------------------------------------------
(* JsonEditor: the schema types offered *)

\* connectionProfiles.find(c => c.id == id)
FindProfile(list, id) ==
    LET hits == {i \in DOMAIN list : list[i].id = id}
    IN IF hits = {} THEN Undefined
       ELSE list[CHOOSE i \in hits : \A j \in hits : i <= j]

\* the local variable connectionProfile of JsonEditor
ConnectionProfileOf(st, profiles) ==
    IF st.connectionProfileId # NullId
    THEN FindProfile(profiles.list, st.connectionProfileId)
    ELSE Null

\* connectionProfiles.find on an undefined list throws a TypeError
JsonEditorThrows(st, profiles) ==
    st.connectionProfileId # NullId /\ ~profiles.defined

\* variant: any profile found enables the option, registry or not
ConfluentOffered_AnyProfile(c, st, profiles) ==
    LET cp == ConnectionProfileOf(st, profiles)
    IN /\ c = "kafka"
       /\ cp \notin {Null, Undefined}

\* variant: the connector is not checked
ConfluentOffered_AnyConnector(c, st, profiles) ==
    LET cp == ConnectionProfileOf(st, profiles)
    IN /\ cp \notin {Null, Undefined}
       /\ cp.config.schemaRegistry \notin {Null, Undefined}

ConfluentOffered(c, st, profiles) ==
    LET cp == ConnectionProfileOf(st, profiles)
    IN /\ c = "kafka"
       /\ cp \notin {Null, Undefined}
       /\ cp.config.schemaRegistry \notin {Null, Undefined}

schemaTypeOptions(c, st, profiles) ==
    <<"json", "unstructured">>
        \o (IF ConfluentOffered(c, st, profiles) THEN <<"confluent">> ELSE <<>>)

SchemaTypeValues(c, st, profiles) ==
    LET opts == schemaTypeOptions(c, st, profiles)
    IN {opts[i] : i \in DOMAIN opts}

----------------------------------------------------------------------------
(* The handlers' effect on the draft *)

\* variant: the schema is rebuilt instead of spread, so framing is lost
JsonOnChange_DropsFraming(st, v) ==
    CASE v = "json" ->
           [st EXCEPT !.schema = [definition |-> [json_schema |-> ""],
                                  fields |-> <<>>,
                                  framing |-> Undefined,
                                  format |-> [json |-> [unstructured |-> FALSE,
                                                        confluentSchemaRegistry |-> FALSE]]]]
      [] v = "confluent" ->
           [st EXCEPT !.schema = [definition |-> Null,
                                  fields |-> <<>>,
                                  framing |-> Undefined,
                                  format |-> [json |-> [unstructured |-> FALSE,
                                                        confluentSchemaRegistry |-> TRUE]]]]
      [] v = "unstructured" ->
           [st EXCEPT !.schema = [definition |-> [raw_schema |-> "value"],
                                  fields |-> <<>>,
                                  framing |-> Undefined,
                                  format |-> [json |-> [unstructured |-> TRUE,
                                                        confluentSchemaRegistry |-> FALSE]]]]
      [] OTHER -> st

\* JsonEditor.onChange: the setState of each case; no case for other values
JsonOnChange(st, v) ==
    CASE v = "json" ->
           [st EXCEPT !.schema.definition = [json_schema |-> ""],
                      !.schema.fields = <<>>,
                      !.schema.format =
                          [json |-> [unstructured |-> FALSE,
                                     confluentSchemaRegistry |-> FALSE]]]
      [] v = "confluent" ->
           [st EXCEPT !.schema.definition = Null,
                      !.schema.fields = <<>>,
                      !.schema.format =
                          [json |-> [unstructured |-> FALSE,
                                     confluentSchemaRegistry |-> TRUE]]]
      [] v = "unstructured" ->
           [st EXCEPT !.schema.definition = [raw_schema |-> "value"],
                      !.schema.fields = <<>>,
                      !.schema.format =
                          [json |-> [unstructured |-> TRUE,
                                     confluentSchemaRegistry |-> FALSE]]]
      [] OTHER -> st

\* variant: the value field is added to the fields already there
Submit_AppendsField(st) ==
    [st EXCEPT !.schema.definition = [raw_schema |-> "value"],
               !.schema.fields = Append(st.schema.fields, ValueField),
               !.schema.format = [raw_string |-> EmptyObject]]

\* variant: the definition is not written
Submit_KeepsDefinition(st) ==
    [st EXCEPT !.schema.fields = <<ValueField>>,
               !.schema.format = [raw_string |-> EmptyObject]]

\* RawStringEditor.submit: the setState
Submit(st) ==
    [st EXCEPT !.schema.definition = [raw_schema |-> "value"],
               !.schema.fields = <<ValueField>>,
               !.schema.format = [raw_string |-> EmptyObject]]

\* DefineSchema.onFormatChange: the setState of each branch
OnFormatChange(st, v) ==
    IF v = "json"
    THEN [st EXCEPT !.schema.format = [json |-> [confluentSchemaRegistry |-> FALSE]],
                    !.schema.fields = <<>>]
    ELSE [st EXCEPT !.schema.format = [raw_string |-> EmptyObject],
                    !.schema.fields = <<>>]

\* DefineSchema.onFormatChange: the setSelectedFormat of each branch
FormatSelected(v) == IF v = "json" THEN "json" ELSE "raw_string"

\* variant: the fields are not reset
OnFramingChange_KeepsFields(st, name) ==
    [st EXCEPT !.schema.framing = FramingValue(name)]

\* DefineSchema.onFramingChange: the setState
OnFramingChange(st, name) ==
    [st EXCEPT !.schema.fields = <<>>,
               !.schema.framing = FramingValue(name)]

----------------------------------------------------------------------------
(* Rendering *)

\* variant: no early return while the lookup is loading
Rendered_WhileLoading == ~crashed

\* DefineSchema renders its selects unless the lookup is loading; nothing is
\* rendered once a render has thrown
Rendered == ~connectionProfilesLoading /\ ~crashed

\* variant: the data-format select appears once a framing has been chosen
FormatSelectRendered_AfterFraming == Rendered /\ selectedFraming # Unset

\* the data-format select is part of every render of DefineSchema
FormatSelectRendered == Rendered

\* JsonEditor is mounted when it is the selected format's element
JsonEditorMounted == Rendered /\ selectedFormat = "json"

\* what each select displays
DisplayedFraming ==
    IF selectedFraming = Unset THEN framingMethods[1].name ELSE selectedFraming
DisplayedFormat == IF selectedFormat = Unset THEN "" ELSE selectedFormat
DisplayedSchemaType == IF selectedSchemaType = Unset THEN "" ELSE selectedSchemaType

----------------------------------------------------------------------------
(* The service contract registry ApiGrpc (lines 12-277)                     *)
(*                                                                         *)
(* A string whose first letter matters is the record of its first          *)
(* character and the rest: "createConnection" is Str("c", "reateConnection"). *)

Str(h, t) == [head |-> h, tail |-> t]

Method(key, name, I, O, kind) ==
    [key |-> key, name |-> name, I |-> I, O |-> O, kind |-> kind]

\* the entries of ApiGrpc.methods, in source order
ApiGrpcMethods ==
    <<
       Method(Str("c", "reateConnection"), Str("C", "reateConnection"),
              "CreateConnectionReq", "CreateConnectionResp", "Unary"),
       Method(Str("t", "estConnection"), Str("T", "estConnection"),
              "CreateConnectionReq", "TestSourceMessage", "Unary"),
       Method(Str("g", "etConnections"), Str("G", "etConnections"),
              "GetConnectionsReq", "GetConnectionsResp", "Unary"),
       Method(Str("d", "eleteConnection"), Str("D", "eleteConnection"),
              "DeleteConnectionReq", "DeleteConnectionResp", "Unary"),
       Method(Str("c", "reateSource"), Str("C", "reateSource"),
              "CreateSourceReq", "CreateSourceResp", "Unary"),
       Method(Str("g", "etSources"), Str("G", "etSources"),
              "GetSourcesReq", "GetSourcesResp", "Unary"),
       Method(Str("d", "eleteSource"), Str("D", "eleteSource"),
              "DeleteSourceReq", "DeleteSourceResp", "Unary"),
       Method(Str("c", "reateSink"), Str("C", "reateSink"),
              "CreateSinkReq", "CreateSinkResp", "Unary"),
       Method(Str("g", "etSinks"), Str("G", "etSinks"),
              "GetSinksReq", "GetSinksResp", "Unary"),
       Method(Str("d", "eleteSink"), Str("D", "eleteSink"),
              "DeleteSinkReq", "DeleteSinkResp", "Unary"),
       Method(Str("g", "etConfluentSchema"), Str("G", "etConfluentSchema"),
              "ConfluentSchemaReq", "ConfluentSchemaResp", "Unary"),
       Method(Str("g", "etSourceMetadata"), Str("G", "etSourceMetadata"),
              "CreateSourceReq", "SourceMetadataResp", "Unary"),
       Method(Str("t", "estSchema"), Str("T", "estSchema"),
              "CreateSourceReq", "TestSchemaResp", "Unary"),
       Method(Str("t", "estSource"), Str("T", "estSource"),
              "CreateSourceReq", "TestSourceMessage", "ServerStreaming"),
       Method(Str("c", "reatePipeline"), Str("C", "reatePipeline"),
              "CreatePipelineReq", "CreatePipelineResp", "Unary"),
       Method(Str("g", "raphForPipeline"), Str("G", "raphForPipeline"),
              "PipelineGraphReq", "PipelineGraphResp", "Unary"),
       Method(Str("g", "etPipeline"), Str("G", "etPipeline"),
              "GetPipelineReq", "PipelineDef", "Unary"),
       Method(Str("c", "reateJob"), Str("C", "reateJob"),
              "CreateJobReq", "CreateJobResp", "Unary"),
       Method(Str("d", "eleteJob"), Str("D", "eleteJob"),
              "DeleteJobReq", "DeleteJobResp", "Unary"),
       Method(Str("s", "tartPipeline"), Str("S", "tartPipeline"),
              "CreatePipelineReq", "CreateJobResp", "Unary"),
       Method(Str("p", "reviewPipeline"), Str("P", "reviewPipeline"),
              "CreatePipelineReq", "CreateJobResp", "Unary"),
       Method(Str("g", "etJobs"), Str("G", "etJobs"),
              "GetJobsReq", "GetJobsResp", "Unary"),
       Method(Str("g", "etJobDetails"), Str("G", "etJobDetails"),
              "JobDetailsReq", "JobDetailsResp", "Unary"),
       Method(Str("g", "etCheckpoints"), Str("G", "etCheckpoints"),
              "JobCheckpointsReq", "JobCheckpointsResp", "Unary"),
       Method(Str("g", "etCheckpointDetail"), Str("G", "etCheckpointDetail"),
              "CheckpointDetailsReq", "CheckpointDetailsResp", "Unary"),
       Method(Str("g", "etOperatorErrors"), Str("G", "etOperatorErrors"),
              "OperatorErrorsReq", "OperatorErrorsRes", "Unary"),
       Method(Str("g", "etJobMetrics"), Str("G", "etJobMetrics"),
              "JobMetricsReq", "JobMetricsResp", "Unary"),
       Method(Str("u", "pdateJob"), Str("U", "pdateJob"),
              "UpdateJobReq", "UpdateJobResp", "Unary"),
       Method(Str("s", "ubscribeToOutput"), Str("S", "ubscribeToOutput"),
              "GrpcOutputSubscription", "OutputData", "ServerStreaming")
    >>

\* variant: testConnection carries the name of createConnection
ApiGrpc_DuplicateName ==
    [typeName |-> "arroyo_api.ApiGrpc",
     methods |-> [ApiGrpcMethods EXCEPT ![2].name = ApiGrpcMethods[1].name]]

\* variant: testSource is declared unary
ApiGrpc_TestSourceUnary ==
    [typeName |-> "arroyo_api.ApiGrpc",
     methods |-> [ApiGrpcMethods EXCEPT ![14].kind = "Unary"]]

\* variant: the updateJob entry is missing
ApiGrpc_NoUpdateJob ==
    [typeName |-> "arroyo_api.ApiGrpc",
     methods |-> SelectSeq(ApiGrpcMethods,
                           LAMBDA m : m.key # Str("u", "pdateJob"))]

ApiGrpc ==
    [typeName |-> "arroyo_api.ApiGrpc", methods |-> ApiGrpcMethods]

\* MethodKind, as far as the registry uses it
MethodKinds == {"Unary", "ServerStreaming"}

\* the entries of the registry that carry the operation name n
MethodsNamed(n) ==
    {i \in DOMAIN ApiGrpc.methods : ApiGrpc.methods[i].name = n}

\* the operation names a caller may ask for: those of the rpcs of the
\* generated file and the test operation of sinks
OperationNames ==
    {ApiGrpcMethods[i].name : i \in DOMAIN ApiGrpcMethods}
        \cup {Str("T", "estSink")}

\* no look-up yet: no entry (index 0) and no name
NoCall ==
    [index |-> 0, method |-> Undefined, name |-> Str("", ""), matches |-> {}]

----------------------------------------------------------------------------
(* Initial state *)

Init ==
    /\ connector \in Connectors
    /\ connectionProfilesLoading = TRUE
    /\ connectionProfiles = UndefinedProfiles
    /\ \E p \in {NullId} \cup ProfileIds : state = EmptyDraft(connector, p)
    /\ selectedFormat = Unset
    /\ selectedFraming = Unset
    /\ selectedSchemaType = Unset
    /\ crashed = FALSE
    /\ nextCalls = 0
    /\ lastEvent = [kind |-> "none", value |-> "", before |-> state]
    /\ call = NoCall

----------------------------------------------------------------------------
(* The connection-profile lookup resolves, once *)

LookupLoaded ==
    /\ connectionProfilesLoading
    /\ \E l \in ProfileLists :
           connectionProfiles' = [defined |-> TRUE, list |-> l]
    /\ connectionProfilesLoading' = FALSE
    /\ lastEvent' = [kind |-> "lookup", value |-> "loaded", before |-> state]
    /\ UNCHANGED <<call, connector, state, selectedFormat, selectedFraming,
                   selectedSchemaType, crashed, nextCalls>>

LookupFailed ==
    /\ connectionProfilesLoading
    /\ connectionProfilesLoading' = FALSE
    /\ lastEvent' = [kind |-> "lookup", value |-> "failed", before |-> state]
    /\ UNCHANGED <<call, connector, connectionProfiles, state, selectedFormat,
                   selectedFraming, selectedSchemaType, crashed, nextCalls>>

----------------------------------------------------------------------------
(* User events *)

FramingChange(name) ==
    /\ Rendered
    /\ name \in FramingEventValues
    /\ name # DisplayedFraming
    /\ selectedFraming' = name
    /\ state' = OnFramingChange(state, name)
    /\ lastEvent' = [kind |-> "framing", value |-> name, before |-> state]
    /\ UNCHANGED <<call, connector, connectionProfilesLoading, connectionProfiles,
                   selectedFormat, selectedSchemaType, crashed, nextCalls>>

FormatChange(v) ==
    /\ FormatSelectRendered
    /\ v \in FormatEventValues
    /\ v # DisplayedFormat
    /\ selectedFormat' = FormatSelected(v)
    /\ state' = OnFormatChange(state, v)
    \* JsonEditor's local state lives while JsonEditor stays mounted
    /\ selectedSchemaType' =
           IF selectedFormat = "json" /\ selectedFormat' = "json"
           THEN selectedSchemaType ELSE Unset
    \* the re-render mounts JsonEditor when json is selected
    /\ crashed' = (selectedFormat' = "json"
                     /\ JsonEditorThrows(state', connectionProfiles))
    /\ lastEvent' = [kind |-> "format", value |-> v, before |-> state]
    /\ UNCHANGED <<call, connector, connectionProfilesLoading, connectionProfiles,
                   selectedFraming, nextCalls>>

SchemaTypeChange(v) ==
    /\ JsonEditorMounted
    /\ v \in {""} \cup SchemaTypeValues(connector, state, connectionProfiles)
    /\ v # DisplayedSchemaType
    /\ selectedSchemaType' =
           IF v \in SchemaTypeValues(connector, state, connectionProfiles)
           THEN v ELSE Unset
    /\ state' = JsonOnChange(state, v)
    /\ lastEvent' = [kind |-> "schemaType", value |-> v, before |-> state]
    /\ UNCHANGED <<call, connector, connectionProfilesLoading, connectionProfiles,
                   selectedFormat, selectedFraming, crashed, nextCalls>>

\* variant: the Continue of the unstructured editor is shown for any schema
\* type, selected or not
UnstructuredContinue_AnyType ==
    /\ JsonEditorMounted
    /\ nextCalls < MaxNextCalls
    /\ nextCalls' = nextCalls + 1
    /\ lastEvent' = [kind |-> "continue", value |-> "unstructured", before |-> state]
    /\ UNCHANGED <<call, connector, connectionProfilesLoading, connectionProfiles,
                   state, selectedFormat, selectedFraming, selectedSchemaType,
                   crashed>>

UnstructuredContinue ==
    /\ JsonEditorMounted
    /\ selectedSchemaType = "unstructured"
    /\ nextCalls < MaxNextCalls
    /\ nextCalls' = nextCalls + 1
    /\ lastEvent' = [kind |-> "continue", value |-> "unstructured", before |-> state]
    /\ UNCHANGED <<call, connector, connectionProfilesLoading, connectionProfiles,
                   state, selectedFormat, selectedFraming, selectedSchemaType,
                   crashed>>

RawStringContinue ==
    /\ Rendered
    /\ selectedFormat = "raw_string"
    /\ nextCalls < MaxNextCalls
    /\ state' = Submit(state)
    /\ nextCalls' = nextCalls + 1
    /\ lastEvent' = [kind |-> "continue", value |-> "raw_string", before |-> state]
    /\ UNCHANGED <<call, connector, connectionProfilesLoading, connectionProfiles,
                   selectedFormat, selectedFraming, selectedSchemaType, crashed>>

Next ==
    \/ LookupLoaded
    \/ LookupFailed
    \/ \E name \in FramingEventValues : FramingChange(name)
    \/ \E v \in FormatEventValues : FormatChange(v)
    \/ \E v \in {"", "json", "unstructured", "confluent"} : SchemaTypeChange(v)
    \/ UnstructuredContinue
    \/ RawStringContinue

Spec == Init /\ [][Next]_vars

----------------------------------------------------------------------------
(* Looking an operation up in the registry: the entry under a key of        *)
(* ApiGrpc.methods, and the entries that carry an operation name.           *)

LookupByKey ==
    /\ \E i \in DOMAIN ApiGrpc.methods :
           call' = [call EXCEPT !.index = i, !.method = ApiGrpc.methods[i]]
    /\ UNCHANGED <<connector, connectionProfilesLoading, connectionProfiles,
                   state, selectedFormat, selectedFraming, selectedSchemaType,
                   crashed, nextCalls, lastEvent>>

LookupByName ==
    /\ \E n \in OperationNames :
           call' = [call EXCEPT !.name = n, !.matches = MethodsNamed(n)]
    /\ UNCHANGED <<connector, connectionProfilesLoading, connectionProfiles,
                   state, selectedFormat, selectedFraming, selectedSchemaType,
                   crashed, nextCalls, lastEvent>>

RegistryNext == LookupByKey \/ LookupByName

RegistrySpec == Init /\ [][RegistryNext]_vars

----------------------------------------------------------------------------
(* Vocabulary of the properties *)

IsJson(f) == "json" \in DOMAIN f
IsRawString(f) == "raw_string" \in DOMAIN f
IsConfluent(f) == IsJson(f) /\ f.json.confluentSchemaRegistry
IsUnstructured(f) ==
    IsJson(f) /\ "unstructured" \in DOMAIN f.json /\ f.json.unstructured
JsonSchemaFormat == [json |-> [unstructured |-> FALSE, confluentSchemaRegistry |-> FALSE]]
IsJsonSchema(f) == f = JsonSchemaFormat
NewlineFraming(len) == [method |-> [newline |-> [maxLineLength |-> len]]]

\* the shape of definition the specification gives each format
CanonicalDefinition(f) ==
    CASE IsConfluent(f) -> Null
      [] IsUnstructured(f) -> [raw_schema |-> "value"]
      [] IsRawString(f) -> [raw_schema |-> "value"]
      [] IsJsonSchema(f) -> [json_schema |-> ""]

\* the last event was a selection in the data-format select
FormatSelection == lastEvent.kind = "format"
\* the last event selected one of the schema types (not the placeholder)
SchemaTypeSelection == lastEvent.kind = "schemaType" /\ lastEvent.value # ""
FramingSelection == lastEvent.kind = "framing"

LookupFailedState == ~connectionProfilesLoading /\ ~connectionProfiles.defined

----------------------------------------------------------------------------
HasListedFormat(f) ==
    IsJsonSchema(f) \/ IsConfluent(f) \/ IsUnstructured(f) \/ IsRawString(f)

(* C1: after every format selection (data-format select or schema-type      *)
(* select) the draft's definition has the canonical shape of the format now *)
(* stored in the draft; no definition of an earlier format is left behind.  *)
(* The code does not satisfy this: onFormatChange leaves definition alone.  *)

C1_DefinitionCanonicalAfterSelection ==
    ((FormatSelection \/ SchemaTypeSelection) /\ HasListedFormat(state.schema.format))
        => state.schema.definition = CanonicalDefinition(state.schema.format)

----------------------------------------------------------------------------
(* C2: immediately after a data-format selection, a schema-type selection   *)
(* or a framing selection the draft's fields list is empty, whatever it was *)
(* before the event.                                                        *)

C2_FieldsEmptyAfterSelection ==
    (FormatSelection \/ SchemaTypeSelection \/ FramingSelection)
        => state.schema.fields = <<>>

\* a selection has just emptied the field list written by Raw String Continue
C2_Witness ==
    /\ FormatSelection \/ FramingSelection
    /\ lastEvent.before.schema.fields = <<ValueField>>
    /\ state.schema.fields = <<>>

----------------------------------------------------------------------------
RegistryProfileActive ==
    /\ connector = "kafka"
    /\ connectionProfiles.defined
    /\ \E i \in DOMAIN connectionProfiles.list :
          /\ connectionProfiles.list[i].id = state.connectionProfileId
          /\ connectionProfiles.list[i].config.schemaRegistry \notin {Null, Undefined}

(* C3: the draft is in the Confluent variant only if the connector is kafka *)
(* and connectionProfileId names a loaded profile whose config has a        *)
(* non-null schemaRegistry; otherwise the Confluent option is not offered.  *)

C3_ConfluentOnlyWithRegistry ==
    /\ IsConfluent(state.schema.format) => RegistryProfileActive
    /\ (JsonEditorMounted /\ ~RegistryProfileActive)
          => /\ "confluent" \notin SchemaTypeValues(connector, state, connectionProfiles)
             /\ ~ENABLED SchemaTypeChange("confluent")

C3_Witness ==
    /\ IsConfluent(state.schema.format)
    /\ lastEvent.kind = "schemaType" /\ lastEvent.value = "confluent"

----------------------------------------------------------------------------
(* What the selects offer *)

\* an option is offered when it is the one displayed or can be selected
OfferedFormats ==
    {v \in {formats[i].value : i \in DOMAIN formats} :
        v = DisplayedFormat \/ ENABLED FormatChange(v)}

OfferedSchemaTypes ==
    {v \in {"json", "unstructured", "confluent"} :
        v = DisplayedSchemaType \/ ENABLED SchemaTypeChange(v)}

DisabledFormats ==
    {formats[i].value : i \in {j \in DOMAIN formats : formats[j].disabled}}

UserEvent ==
    \/ \E name \in FramingEventValues : FramingChange(name)
    \/ \E v \in FormatEventValues : FormatChange(v)
    \/ \E v \in {"", "json", "unstructured", "confluent"} : SchemaTypeChange(v)
    \/ UnstructuredContinue
    \/ RawStringContinue

----------------------------------------------------------------------------
(* C4: with connector kafka the options offered are JSON and Raw String at  *)
(* the top level (Protobuf and Avro listed but disabled) and, under JSON,   *)
(* JSON Schema, Unstructured JSON and - exactly when the active profile has *)
(* a schemaRegistry - Confluent Schema Registry.                            *)

C4_OfferedOptions ==
    (Rendered /\ connector = "kafka")
        => /\ OfferedFormats = {"json", "raw_string"}
           /\ DisabledFormats = {"protobuf", "avro"}
           /\ JsonEditorMounted
                 => OfferedSchemaTypes =
                        IF RegistryProfileActive
                        THEN {"json", "unstructured", "confluent"}
                        ELSE {"json", "unstructured"}

\* scenario B: a kafka profile without registry is active and the schema
\* types are on display
C4_Witness ==
    /\ JsonEditorMounted
    /\ connector = "kafka"
    /\ ConnectionProfileOf(state, connectionProfiles) \notin {Null, Undefined}
    /\ ~RegistryProfileActive
    /\ OfferedSchemaTypes = {"json", "unstructured"}

----------------------------------------------------------------------------
RawStringDraft(st) ==
    /\ IsRawString(st.schema.format)
    /\ st.schema.definition = [raw_schema |-> "value"]
    /\ st.schema.fields = <<ValueField>>

(* C5 as stated: selecting the Raw String format yields format raw_string,  *)
(* definition {raw_schema: 'value'} and the single field 'value'.           *)

----------------------------------------------------------------------------
NewlineThenJsonSchema ==
    /\ selectedFraming = "Newline"
    /\ lastEvent.kind = "schemaType" /\ lastEvent.value = "json"

(* C6 as stated: Newline framing with maxLineLength 128, then JSON Schema,  *)
(* leaves framing {method: {newline: {maxLineLength: 128}}}, format JSON    *)
(* Schema, fields [] and definition {json_schema: ''}.                      *)

C6_NewlineCarriesMaxLineLength ==
    NewlineThenJsonSchema
        => /\ state.schema.framing = NewlineFraming({128})
           /\ state.schema.format = JsonSchemaFormat
           /\ state.schema.fields = <<>>
           /\ state.schema.definition = [json_schema |-> ""]

(* C6 as amended: the Newline option carries no chosen length; after        *)
(* Newline framing and then JSON Schema the draft has framing               *)
(* {method: {newline: {maxLineLength: null}}}, format JSON Schema, fields   *)
(* [] and definition {json_schema: ''}: the framing survives the format     *)
(* selections.                                                              *)

C6_NewlineFramingSurvivesFormat ==
    NewlineThenJsonSchema
        => /\ state.schema.framing = NewlineFraming({})
           /\ state.schema.format = JsonSchemaFormat
           /\ state.schema.fields = <<>>
           /\ state.schema.definition = [json_schema |-> ""]

C6_Witness ==
    /\ NewlineThenJsonSchema
    /\ lastEvent.before.schema.framing = NewlineFraming({})
    /\ lastEvent.before.schema.format # JsonSchemaFormat
    /\ state.schema.format = JsonSchemaFormat

----------------------------------------------------------------------------
(* C7 as stated: no format selection changes the draft before a framing     *)
(* selection has occurred.                                                  *)

C7_NoFormatBeforeFraming ==
    selectedFraming = Unset => state.schema.format = Undefined

(* C7 as amended: the framing and data-format selects are offered together; *)
(* a format selection is accepted whether or not a framing selection has    *)
(* occurred, and while none has occurred the draft's framing stays absent.  *)

C7_FormatAcceptedWithoutFraming ==
    selectedFraming = Unset
        => /\ state.schema.framing = Undefined
           /\ Rendered => \A v \in FormatEventValues :
                              v # DisplayedFormat => ENABLED FormatChange(v)

C7_Witness ==
    /\ selectedFraming = Unset
    /\ FormatSelection
    /\ state.schema.format # lastEvent.before.schema.format

----------------------------------------------------------------------------
(* C8: while the connection-profile lookup is loading nothing is offered:   *)
(* no selection or Continue event can occur and the draft stays as it was.  *)

C8_NothingWhileLoading ==
    connectionProfilesLoading
        => /\ ~ENABLED UserEvent
           /\ OfferedFormats = {}
           /\ OfferedSchemaTypes = {}
           /\ state = EmptyDraft(connector, state.connectionProfileId)
           /\ lastEvent.kind = "none"
           /\ nextCalls = 0

C8_Witness ==
    /\ connectionProfilesLoading
    /\ state.connectionProfileId # NullId
    /\ ENABLED LookupLoaded

----------------------------------------------------------------------------
(* C9: after a failed lookup Confluent is not offered, the other options    *)
(* stay offered, and selecting any of them completes without error, also    *)
(* with a non-null connectionProfileId.  The code does not satisfy this:    *)
(* JsonEditor calls find on the undefined profile list.                     *)

C9_FailedLookupKeepsOtherOptions ==
    LookupFailedState
        => /\ ~crashed
           /\ OfferedFormats = {"json", "raw_string"}
           /\ JsonEditorMounted => OfferedSchemaTypes = {"json", "unstructured"}

----------------------------------------------------------------------------
(* C10: every selection transition is idempotent: applied twice in a row    *)
(* it yields the draft it yields applied once.                              *)

C10_SelectionsIdempotent ==
    Rendered
        => /\ \A name \in FramingEventValues :
                 OnFramingChange(OnFramingChange(state, name), name)
                     = OnFramingChange(state, name)
           /\ \A v \in FormatEventValues :
                 OnFormatChange(OnFormatChange(state, v), v) = OnFormatChange(state, v)
           /\ \A v \in {"", "json", "unstructured", "confluent"} :
                 JsonOnChange(JsonOnChange(state, v), v) = JsonOnChange(state, v)
           /\ Submit(Submit(state)) = Submit(state)

\* Continue pressed a second time in a row: the draft is the one the first
\* press left
C10_Witness ==
    /\ lastEvent.kind = "continue" /\ lastEvent.value = "raw_string"
    /\ RawStringDraft(lastEvent.before)
    /\ state = lastEvent.before
    /\ nextCalls = 2

----------------------------------------------------------------------------
(* C11: a format-change event alters the draft only when its value is one   *)
(* of the enabled options json and raw_string; any other value (the         *)
(* placeholder's empty value, a disabled option) leaves the draft's format  *)
(* as it was.  The code does not satisfy this: onFormatChange treats every  *)
(* value other than 'json' as raw_string.                                   *)

C11_OnlyEnabledFormatsChangeDraft ==
    (FormatSelection /\ lastEvent.value \notin {"json", "raw_string"})
        => state.schema.format = lastEvent.before.schema.format

----------------------------------------------------------------------------
(* Vocabulary of the registry properties *)

\* an entry has been looked up by key / a name has been looked up
KeyLookedUp == call.index # 0
NameLookedUp == call.name # NoCall.name

LowerLetters ==
    <<"a", "b", "c", "d", "e", "f", "g", "h", "i", "j", "k", "l", "m",
      "n", "o", "p", "q", "r", "s", "t", "u", "v", "w", "x", "y", "z">>
UpperLetters ==
    <<"A", "B", "C", "D", "E", "F", "G", "H", "I", "J", "K", "L", "M",
      "N", "O", "P", "Q", "R", "S", "T", "U", "V", "W", "X", "Y", "Z">>

ToUpper(ch) ==
    IF \E i \in DOMAIN LowerLetters : LowerLetters[i] = ch
    THEN UpperLetters[CHOOSE i \in DOMAIN LowerLetters : LowerLetters[i] = ch]
    ELSE ch

\* a string with its first letter capitalised
CapitaliseFirst(s) == Str(ToUpper(s.head), s.tail)

\* the operation catalog as the specification states it: create, test, get
\* and delete for connections, sources and sinks; create, get and graph for
\* pipelines; create, delete, update and get for jobs; checkpoint detail and
\* list; operator errors; job metrics; output subscription
CatalogWithoutTestSink ==
    { Str("C", "reateConnection"), Str("T", "estConnection"),
      Str("G", "etConnections"), Str("D", "eleteConnection"),
      Str("C", "reateSource"), Str("T", "estSource"),
      Str("G", "etSources"), Str("D", "eleteSource"),
      Str("C", "reateSink"), Str("G", "etSinks"), Str("D", "eleteSink"),
      Str("C", "reatePipeline"), Str("G", "etPipeline"),
      Str("G", "raphForPipeline"),
      Str("C", "reateJob"), Str("D", "eleteJob"), Str("U", "pdateJob"),
      Str("G", "etJobs"),
      Str("G", "etCheckpointDetail"), Str("G", "etCheckpoints"),
      Str("G", "etOperatorErrors"), Str("G", "etJobMetrics"),
      Str("S", "ubscribeToOutput") }

StatedCatalog == CatalogWithoutTestSink \cup {Str("T", "estSink")}

----------------------------------------------------------------------------
(* C12: operation names are unique in the registry - a look-up by name      *)
(* finds at most one entry, and the entry found under a key is the only one *)
(* with its name - and every entry's name is its key with the first letter  *)
(* capitalised.                                                             *)

C12_OperationNamesUnique ==
    /\ NameLookedUp => Cardinality(call.matches) <= 1
    /\ KeyLookedUp
          => /\ MethodsNamed(call.method.name) = {call.index}
             /\ call.method.name = CapitaliseFirst(call.method.key)

\* an operation looked up by the name of the entry found under a key
C12_Witness ==
    /\ KeyLookedUp
    /\ call.name = call.method.name
    /\ call.matches = {call.index}
    /\ call.method.key # call.method.name

----------------------------------------------------------------------------
(* C13: every entry has one invocation mode, unary or serverStreaming;      *)
(* TestSource and SubscribeToOutput are serverStreaming and every other     *)
(* operation is unary.                                                      *)

C13_InvocationModes ==
    KeyLookedUp
        => /\ call.method.kind \in MethodKinds
           /\ call.method.kind = "ServerStreaming"
                 <=> call.method.name \in {Str("T", "estSource"),
                                           Str("S", "ubscribeToOutput")}

C13_Witness ==
    /\ KeyLookedUp
    /\ call.method.name = Str("T", "estSource")
    /\ call.method.kind = "ServerStreaming"

----------------------------------------------------------------------------
(* C14 as stated: the registry has an entry for each operation of the       *)
(* stated catalog, the test operation of sinks included.                    *)

----------------------------------------------------------------------------
ContinueAvailability ==
    /\ ENABLED UnstructuredContinue
          => selectedFormat = "json" /\ selectedSchemaType # Unset
    /\ ENABLED RawStringContinue => selectedFormat = "raw_string"
    /\ (Rendered /\ selectedFormat = "raw_string" /\ nextCalls < MaxNextCalls)
          => ENABLED RawStringContinue

(* C15: next() is invoked only by a Continue press, never by a framing,     *)
(* format or schema-type selection; a Continue is available only while a    *)
(* top-level format is selected and, on the JSON branch, a schema type is   *)
(* selected; Raw String offers its Continue without any sub-selection.      *)

C15_AdvanceOnlyOnContinue ==
    /\ []ContinueAvailability
    /\ [][nextCalls' # nextCalls
            => /\ lastEvent'.kind = "continue"
               /\ nextCalls' = nextCalls + 1]_vars

\* a selection that did not advance, then the Continue of the JSON branch
C15_Witness ==
    /\ lastEvent.kind = "continue" /\ lastEvent.value = "unstructured"
    /\ selectedSchemaType = "unstructured"
    /\ nextCalls = 1

----------------------------------------------------------------------------
RawStringContinued == lastEvent.kind = "continue" /\ lastEvent.value = "raw_string"

(* C16: framing and schema format are independent: a data-format selection, *)
(* a schema-type selection and the Raw String Continue leave framing,       *)
(* connectorId and connectionProfileId as they were; a framing selection    *)
(* leaves format, definition, connectorId and connectionProfileId as they   *)
(* were and sets framing to the option's value - absent for None,           *)
(* {method: {newline: {maxLineLength: null}}} for Newline.                  *)

C16_FramingAndFormatIndependent ==
    /\ (FormatSelection \/ lastEvent.kind = "schemaType" \/ RawStringContinued)
          => /\ state.schema.framing = lastEvent.before.schema.framing
             /\ state.connectorId = lastEvent.before.connectorId
             /\ state.connectionProfileId = lastEvent.before.connectionProfileId
    /\ FramingSelection
          => /\ state.schema.format = lastEvent.before.schema.format
             /\ state.schema.definition = lastEvent.before.schema.definition
             /\ state.connectorId = lastEvent.before.connectorId
             /\ state.connectionProfileId = lastEvent.before.connectionProfileId
             /\ state.schema.framing =
                    IF lastEvent.value = "None" THEN Undefined
                    ELSE NewlineFraming({})

\* a schema type selected under Newline framing: the framing is still there
C16_Witness ==
    /\ SchemaTypeSelection
    /\ lastEvent.before.schema.framing = NewlineFraming({})
    /\ state.schema.framing = NewlineFraming({})
    /\ state.schema.format # lastEvent.before.schema.format

----------------------------------------------------------------------------
UnstructuredDraft(st) ==
    /\ IsUnstructured(st.schema.format)
    /\ ~IsConfluent(st.schema.format)
    /\ st.schema.definition = [raw_schema |-> "value"]

\* the part about the draft handed on, which the code satisfies
C17_DraftHandedOn ==
    /\ (lastEvent.kind = "continue" /\ lastEvent.value = "unstructured")
          => UnstructuredDraft(state)
    /\ RawStringContinued
          => /\ IsRawString(state.schema.format)
             /\ state.schema.definition = [raw_schema |-> "value"]
    /\ ENABLED UnstructuredContinue => UnstructuredDraft(state)
    /\ ENABLED RawStringContinue => IsRawString(state.schema.format)

(* C17: when next() is invoked from the Unstructured JSON Continue or the   *)
(* Raw String Continue the draft handed on has the format of that branch    *)
(* and definition {raw_schema: 'value'}, and neither Continue is ever       *)
(* available while the draft holds a different format or definition.  The  *)
(* code does not satisfy the last part for Raw String: its Continue is      *)
(* available while the definition is still the one onFormatChange left.     *)

C17_ContinueMatchesDraft ==
    /\ C17_DraftHandedOn
    /\ ENABLED RawStringContinue
          => state.schema.definition = [raw_schema |-> "value"]

----------------------------------------------------------------------------
(* C18 as stated: once the Raw String Continue has written the single field *)
(* 'value', the draft keeps that fields list for as long as its format      *)
(* remains raw_string.                                                      *)

C18_ValueFieldKeptWhileRawString ==
    [][(/\ IsRawString(state.schema.format)
        /\ state.schema.fields = <<ValueField>>
        /\ IsRawString(state'.schema.format))
           => state'.schema.fields = <<ValueField>>]_vars

(* C18 as amended: the Raw String Continue sets fields to the single field  *)
(* 'value'; the draft keeps it only until the next framing or data-format   *)
(* selection, which resets fields to [] even while the format remains      *)
(* raw_string; a draft with format raw_string has the single field exactly  *)
(* when the Raw String Continue was the last event.                         *)

C18_ValueFieldUntilNextSelection ==
    IsRawString(state.schema.format)
        => /\ state.schema.fields \in {<<>>, <<ValueField>>}
           /\ state.schema.fields = <<ValueField>> <=> RawStringContinued

\* a framing change after Continue: format raw_string, fields emptied
C18_Witness ==
    /\ FramingSelection
    /\ IsRawString(state.schema.format)
    /\ lastEvent.before.schema.fields = <<ValueField>>
    /\ state.schema.fields = <<>>

====
